---- MODULE Spec2Model ----
(***************************************************************************)
(* A model of analysis/marslink.py: the ring-count optimiser, the          *)
(* threshold scan, the fits and the export of the Marslink throughput      *)
(* analysis.                                                               *)
(*                                                                         *)
(* Numbers.  The script computes with Python integers (unbounded) and with *)
(* IEEE doubles.  TLC's integers are 32 bits wide, so every quantity of the *)
(* script that can exceed 2^31 is held here as an unbounded natural (a     *)
(* sequence of base-10000 limbs, least significant first) and every float  *)
(* as an exact fraction of two such naturals.  The fractions follow the    *)
(* script's arithmetic operation by operation; what is not modelled is the *)
(* rounding of each double operation (relative error about 1e-16), and     *)
(* math.pi, a double, is taken as the fraction PiNum/PiDen.                *)
(***************************************************************************)
EXTENDS Integers, Sequences, FiniteSets, TLC

----------------------------------------------------------------------------
(* Unbounded naturals *)

Base == 10000

Zero == << >>
One == <<1>>

RECURSIVE Big(_)
Big(n) == IF n = 0 THEN Zero ELSE <<n % Base>> \o Big(n \div Base)

Limb(a, i) == IF i <= Len(a) THEN a[i] ELSE 0

RECURSIVE AddFrom(_, _, _, _, _)
AddFrom(a, b, i, carry, acc) ==
    IF i > Len(a) /\ i > Len(b)
    THEN (IF carry = 0 THEN acc ELSE Append(acc, carry))
    ELSE LET t == Limb(a, i) + Limb(b, i) + carry
         IN  AddFrom(a, b, i + 1, t \div Base, Append(acc, t % Base))

BigAdd(a, b) ==
    IF a = Zero THEN b ELSE IF b = Zero THEN a ELSE AddFrom(a, b, 1, 0, << >>)

\* the k-th column of the long multiplication of a by b: the sum of
\* a[i] * b[k + 1 - i] for i from i to hi
RECURSIVE Column(_, _, _, _, _, _)
Column(a, b, k, i, hi, acc) ==
    IF i > hi THEN acc
    ELSE Column(a, b, k, i + 1, hi, acc + a[i] * b[k + 1 - i])

Max2(x, y) == IF x >= y THEN x ELSE y
Min2(x, y) == IF x <= y THEN x ELSE y

RECURSIVE CarryFrom(_, _, _, _, _)
CarryFrom(a, b, k, carry, acc) ==
    IF k > Len(a) + Len(b) - 1
    THEN (IF carry = 0 THEN acc ELSE Append(acc, carry))
    ELSE LET t == Column(a, b, k, Max2(1, k + 1 - Len(b)), Min2(k, Len(a)), carry)
         IN  CarryFrom(a, b, k + 1, t \div Base, Append(acc, t % Base))

\* the number of zero limbs a ends with (a # Zero)
RECURSIVE LowZeros(_, _)
LowZeros(a, k) == IF a[k + 1] = 0 THEN LowZeros(a, k + 1) ELSE k

\* a * Base^k
Shift(a, k) == IF k = 0 THEN a ELSE [i \in 1..(Len(a) + k) |-> IF i <= k THEN 0 ELSE a[i - k]]

BigMul(a, b) ==
    IF a = Zero \/ b = Zero THEN Zero
    ELSE IF b = One THEN a
    ELSE IF a = One THEN b
    ELSE LET za == LowZeros(a, 0)
             zb == LowZeros(b, 0)
         IN  IF za + zb = 0 THEN CarryFrom(a, b, 1, 0, << >>)
             ELSE Shift(CarryFrom(SubSeq(a, za + 1, Len(a)), SubSeq(b, zb + 1, Len(b)),
                                  1, 0, << >>), za + zb)

RECURSIVE BigPow(_, _)
BigPow(a, e) == IF e = 0 THEN One ELSE BigMul(a, BigPow(a, e - 1))

RECURSIVE LessFrom(_, _, _)
LessFrom(a, b, i) ==
    IF i = 0 THEN FALSE
    ELSE IF a[i] # b[i] THEN a[i] < b[i]
    ELSE LessFrom(a, b, i - 1)

BigLess(a, b) ==
    IF Len(a) # Len(b) THEN Len(a) < Len(b) ELSE LessFrom(a, b, Len(a))

----------------------------------------------------------------------------
(* Exact fractions: [num, den] with den > 0 *)

\* a common factor Base^k of numerator and denominator is cancelled
RECURSIVE Shared(_, _, _)
Shared(a, b, k) ==
    IF k < Len(a) /\ k < Len(b) /\ a[k + 1] = 0 /\ b[k + 1] = 0
    THEN Shared(a, b, k + 1) ELSE k

Rat(n, d) ==
    IF n = Zero THEN [num |-> Zero, den |-> One]
    ELSE LET k == Shared(n, d, 0)
         IN  IF k = 0 THEN [num |-> n, den |-> d]
             ELSE [num |-> SubSeq(n, k + 1, Len(n)), den |-> SubSeq(d, k + 1, Len(d))]

RatInt(n) == [num |-> n, den |-> One]
RatAdd(x, y) == Rat(BigAdd(BigMul(x.num, y.den), BigMul(y.num, x.den)), BigMul(x.den, y.den))
RatMul(x, y) == Rat(BigMul(x.num, y.num), BigMul(x.den, y.den))
RatDiv(x, y) == Rat(BigMul(x.num, y.den), BigMul(x.den, y.num))
RatGT(x, y) == BigLess(BigMul(y.num, x.den), BigMul(x.num, y.den))
RatZero == RatInt(Zero)

----------------------------------------------------------------------------
(* Configuration constants *)

sun_dist_earth_periapsis_km == 150000000
sun_dist_mars_apoapsis_km == 240000000

\* math.pi
PiNum == 355
PiDen == 113
pi == [num |-> Big(PiNum), den |-> Big(PiDen)]

avg_sun_distance_km ==
    RatDiv(RatInt(Big(sun_dist_earth_periapsis_km + sun_dist_mars_apoapsis_km)), RatInt(Big(2)))
EM_km == sun_dist_mars_apoapsis_km - sun_dist_earth_periapsis_km

baseline_mbps == 100000
baseline_km == 3000
baseline_improvement == 10

\* range(20, 5321, 20) and range(1, 1000)
InringStart == 20
InringStop == 5321
InringStep == 20
RingStart == 1
RingStop == 1000

RangeLen(start, stop, step) ==
    IF stop <= start THEN 0 ELSE (stop - start + step - 1) \div step
RangeAt(start, step, i) == start + step * i

target_total_mbps == 1000

FILE_NAME == "analysis/marslink_analysis.xlsx"

----------------------------------------------------------------------------
(* LinkModel *)

\* baseline_improvement*baseline_mbps*baseline_km ** 2
LinkBudget ==
    BigMul(BigMul(Big(baseline_improvement), Big(baseline_mbps)), BigPow(Big(baseline_km), 2))

\* 2*math.pi*avg_sun_distance_km
Circumference == RatMul(RatMul(RatInt(Big(2)), pi), avg_sun_distance_km)

Square(x) == RatMul(x, x)

\* the denominator of total_mbps_worst with orbit radius `radius`
WorstDenominator(inring, ring, radius) ==
    RatAdd(RatInt(BigPow(BigMul(Big(EM_km), Big(inring)), 2)),
           Square(RatMul(RatMul(RatMul(RatInt(Big(2)), pi), radius), RatInt(Big(ring)))))

\* mutant: the factor inring_satcount ** 3 is missing
WorstWithoutInring(inring, ring) ==
    RatDiv(RatInt(BigMul(LinkBudget, BigPow(Big(ring), 2))),
           WorstDenominator(inring, ring, avg_sun_distance_km))

\* mutant: the ring term uses the orbit of Mars instead of the mean distance
WorstWithMarsOrbit(inring, ring) ==
    RatDiv(RatInt(BigMul(BigMul(LinkBudget, BigPow(Big(inring), 3)), BigPow(Big(ring), 2))),
           WorstDenominator(inring, ring, RatInt(Big(sun_dist_mars_apoapsis_km))))

\* mutant: ring_count ** 3 for ring_count ** 2
WorstCubicInRing(inring, ring) ==
    RatDiv(RatInt(BigMul(BigMul(LinkBudget, BigPow(Big(inring), 3)), BigPow(Big(ring), 3))),
           WorstDenominator(inring, ring, avg_sun_distance_km))

total_mbps_worst(inring, ring) ==
    RatDiv(RatInt(BigMul(BigMul(LinkBudget, BigPow(Big(inring), 3)), BigPow(Big(ring), 2))),
           RatAdd(RatInt(BigPow(BigMul(Big(EM_km), Big(inring)), 2)),
                  Square(RatMul(Circumference, RatInt(Big(ring))))))

total_mbps_best(inring, ring) ==
    RatDiv(RatInt(BigMul(BigMul(LinkBudget, Big(inring)), BigPow(Big(ring), 2))),
           RatInt(BigPow(Big(EM_km), 2)))

\* a stand-in link model for testing the optimiser: table[R] is the
\* throughput per satellite with R rings (0 beyond the table), so that the
\* total is table[R] * N * R
ToyWorst(table, inring, ring) ==
    IF ring >= 1 /\ ring <= Len(table)
    THEN RatInt(BigMul(Big(table[ring]), Big(inring * ring)))
    ELSE RatZero

ToyBest(table, inring, ring) == ToyWorst(table, inring, ring)

PhysicalLink == [kind |-> "physical", table |-> << >>]

----------------------------------------------------------------------------
(* The script *)

VARIABLES
    pc,                  \* the statement the script is at
    link,                \* the link model bound to total_mbps_worst/_best
    inring_satcount, ring_count, total_satcount,
    i_inring, i_ring,    \* values already drawn from the two range() iterators
    max_mbps_per_sat, optimal_ring,
    evals,               \* history: the ring counts evaluated by the current scan
    results,
    i_results,           \* entries already drawn by the threshold scan's iterator
    fits,                \* a1, b1, a2, b2, a_worst, b_worst, a_best, b_best
    wb,                  \* the workbook: rows of its two sheets
    file,                \* the output artifact
    save_outcome,        \* history: what wb.save did
    stdout

vars == <<pc, link, inring_satcount, ring_count, total_satcount, i_inring, i_ring,
          max_mbps_per_sat, optimal_ring, evals, results, i_results, fits, wb,
          file, save_outcome, stdout>>

\* the calls total_mbps_worst(...) and total_mbps_best(...) of the script
worstMbps(inring, ring) ==
    IF link.kind = "physical" THEN total_mbps_worst(inring, ring)
    ELSE ToyWorst(link.table, inring, ring)

bestMbps(inring, ring) ==
    IF link.kind = "physical" THEN total_mbps_best(inring, ring)
    ELSE ToyBest(link.table, inring, ring)

\* total_mbps_worst_val / total_satcount
mbpsPerSat(inring, ring) == RatDiv(worstMbps(inring, ring), RatInt(Big(inring * ring)))

\* a name not yet assigned
Unset == "unset"

NoFits == [a1 |-> Unset, b1 |-> Unset, a2 |-> Unset, b2 |-> Unset,
           a_worst |-> Unset, b_worst |-> Unset, a_best |-> Unset, b_best |-> Unset]

NoWorkbook == [Data |-> << >>, Fits |-> << >>]

\* module level, lines 18-36: inring_satcount = 4, ring_count = 4,
\* total_satcount = inring_satcount * ring_count; results = []
Start(lm) ==
    /\ pc = "for_inring"
    /\ link = lm
    /\ inring_satcount = 4
    /\ ring_count = 4
    /\ total_satcount = 4 * 4
    /\ i_inring = 0
    /\ i_ring = 0
    /\ max_mbps_per_sat = RatZero
    /\ optimal_ring = 0
    /\ evals = << >>
    /\ results = << >>
    /\ i_results = 0
    /\ fits = NoFits
    /\ wb = NoWorkbook
    /\ file = "absent"
    /\ save_outcome = "none"
    /\ stdout = << >>

Init == Start(PhysicalLink)

\* for inring_satcount in range(...): max_mbps_per_sat = 0; optimal_ring = 0,
\* for a range of `count` values
ForInring(count) ==
    /\ pc = "for_inring"
    /\ IF i_inring < count
       THEN /\ inring_satcount' = RangeAt(InringStart, InringStep, i_inring)
            /\ i_inring' = i_inring + 1
            /\ max_mbps_per_sat' = RatZero
            /\ optimal_ring' = 0
            /\ i_ring' = 0
            /\ evals' = << >>
            /\ pc' = "for_ring"
       ELSE /\ pc' = "regress"
            /\ UNCHANGED <<inring_satcount, i_inring, max_mbps_per_sat, optimal_ring,
                           i_ring, evals>>
    /\ UNCHANGED <<link, ring_count, total_satcount, results, i_results, fits, wb,
                   file, save_outcome, stdout>>

\* for inring_satcount in range(20, 5321, 20)
NextInring == ForInring(RangeLen(InringStart, InringStop, InringStep))

\* mutant: >= for >
ImprovesOrTies(mbps_per_sat, running_max) == ~RatGT(running_max, mbps_per_sat)

\* mutant: < for >
ImprovesReversed(mbps_per_sat, running_max) == RatGT(running_max, mbps_per_sat)

\* the comparison of line 48
Improves(mbps_per_sat, running_max) == RatGT(mbps_per_sat, running_max)

\* one pass of: for ring_count in range(1, 1000)
ScanRing ==
    /\ pc = "for_ring"
    /\ IF i_ring < RangeLen(RingStart, RingStop, 1)
       THEN LET ring == RangeAt(RingStart, 1, i_ring)
                mbps_per_sat == mbpsPerSat(inring_satcount, ring)
            IN  /\ ring_count' = ring
                /\ i_ring' = i_ring + 1
                /\ total_satcount' = inring_satcount * ring
                /\ evals' = Append(evals, ring)
                /\ IF Improves(mbps_per_sat, max_mbps_per_sat)
                   THEN /\ max_mbps_per_sat' = mbps_per_sat
                        /\ optimal_ring' = ring
                        /\ pc' = "for_ring"
                   ELSE /\ pc' = "optimal"      \* break
                        /\ UNCHANGED <<max_mbps_per_sat, optimal_ring>>
       ELSE /\ pc' = "optimal"                  \* the range is exhausted
            /\ UNCHANGED <<ring_count, i_ring, total_satcount, evals,
                           max_mbps_per_sat, optimal_ring>>
    /\ UNCHANGED <<link, inring_satcount, i_inring, results, i_results, fits, wb,
                   file, save_outcome, stdout>>

\* mutant: the ring count the scan ended at for the optimal one
SatcountTotalLastRing(inring, ring, last_ring) == inring * last_ring

\* satcount_total of line 56
SatcountTotal(inring, ring, last_ring) == inring * ring

\* mutant: mbps_per_sat, the value evaluated last, for max_mbps_per_sat
OptimalResultLastValue(inring, ring, last_ring, per_sat) ==
    [inring_satcount |-> inring,
     optimal_ring_count |-> ring,
     satcount_total |-> inring * ring,
     max_mbps_per_sat |-> mbpsPerSat(inring, last_ring),
     total_mbps_worst |-> worstMbps(inring, ring),
     total_mbps_best |-> bestMbps(inring, ring)]

\* mutant: ring_count, the ring count evaluated last, for optimal_ring
OptimalResultLastRing(inring, ring, last_ring, per_sat) ==
    [inring_satcount |-> inring,
     optimal_ring_count |-> last_ring,
     satcount_total |-> inring * last_ring,
     max_mbps_per_sat |-> per_sat,
     total_mbps_worst |-> worstMbps(inring, last_ring),
     total_mbps_best |-> bestMbps(inring, last_ring)]

\* lines 54-58
OptimalResult(inring, ring, last_ring, per_sat) ==
    [inring_satcount |-> inring,
     optimal_ring_count |-> ring,
     satcount_total |-> SatcountTotal(inring, ring, last_ring),
     max_mbps_per_sat |-> per_sat,
     total_mbps_worst |-> worstMbps(inring, ring),
     total_mbps_best |-> bestMbps(inring, ring)]

ComputeOptimal ==
    /\ pc = "optimal"
    /\ results' = Append(results, OptimalResult(inring_satcount, optimal_ring, ring_count,
                                                max_mbps_per_sat))
    /\ pc' = "for_inring"
    /\ UNCHANGED <<link, inring_satcount, ring_count, total_satcount, i_inring, i_ring,
                   max_mbps_per_sat, optimal_ring, evals, i_results, fits, wb, file,
                   save_outcome, stdout>>

\* np.polyfit(x, y, 1): the least-squares line through the two named columns.
\* The coefficients are floats no statement of the script branches on; they
\* are carried as the expression that produced them.
Polyfit(x, y) == [slope |-> "polyfit(" \o x \o "," \o y \o ")[0]",
                  intercept |-> "polyfit(" \o x \o "," \o y \o ")[1]"]

Line(text, data) == [line |-> text, data |-> data]

\* lines 62-70
Regress ==
    /\ pc = "regress"
    /\ LET f1 == Polyfit("optimal_ring_list", "mbps_per_sat_list")
           f2 == Polyfit("inring_list", "optimal_ring_list")
       IN  /\ fits' = [fits EXCEPT !.a1 = f1.slope, !.b1 = f1.intercept,
                                   !.a2 = f2.slope, !.b2 = f2.intercept]
           /\ stdout' = stdout \o
                  << Line("Regression for mbps_per_sat vs optimal_ring", <<f1.slope, f1.intercept>>),
                     Line("Regression for optimal_ring vs inring", <<f2.slope, f2.intercept>>) >>
    /\ i_results' = 0
    /\ pc' = "threshold"
    /\ UNCHANGED <<link, inring_satcount, ring_count, total_satcount, i_inring, i_ring,
                   max_mbps_per_sat, optimal_ring, evals, results, wb, file, save_outcome>>

\* mutant: >= for >
ReachesTarget(total_mbps, target) == ~RatGT(RatInt(Big(target)), total_mbps)

\* the comparison of line 77
Exceeds(total_mbps, target) == RatGT(total_mbps, RatInt(Big(target)))

\* one pass of: for r in results (lines 76-79)
ThresholdScan ==
    /\ pc = "threshold"
    /\ IF i_results < Len(results)
       THEN LET r == results[i_results + 1]
            IN  /\ i_results' = i_results + 1
                /\ IF Exceeds(r.total_mbps_worst, target_total_mbps)
                   THEN /\ stdout' = Append(stdout, Line("threshold entry", <<r>>))
                        /\ pc' = "powerfit"     \* break
                   ELSE /\ pc' = "threshold"
                        /\ UNCHANGED stdout
       ELSE /\ pc' = "powerfit"
            /\ UNCHANGED <<i_results, stdout>>
    /\ UNCHANGED <<link, inring_satcount, ring_count, total_satcount, i_inring, i_ring,
                   max_mbps_per_sat, optimal_ring, evals, results, fits, wb, file,
                   save_outcome>>

RatPositive(x) == x.num # Zero

\* np.log of a column: finite exactly when every entry is positive (a zero
\* gives -inf, and the fit through it nan)
LogFinite(column) == \A i \in 1..Len(column) : column[i]

\* lines 82-100
PowerFit ==
    /\ pc = "powerfit"
    /\ LET sat_ok == LogFinite([i \in 1..Len(results) |-> results[i].satcount_total > 0])
           worst_ok == LogFinite([i \in 1..Len(results) |->
                                     RatPositive(results[i].total_mbps_worst)])
           best_ok == LogFinite([i \in 1..Len(results) |->
                                    RatPositive(results[i].total_mbps_best)])
           fw == Polyfit("log_sat", "log_worst")
           fb == Polyfit("log_sat", "log_best")
           aw == IF sat_ok /\ worst_ok THEN "exp(" \o fw.intercept \o ")" ELSE "nan"
           bw == IF sat_ok /\ worst_ok THEN fw.slope ELSE "nan"
           ab == IF sat_ok /\ best_ok THEN "exp(" \o fb.intercept \o ")" ELSE "nan"
           bb == IF sat_ok /\ best_ok THEN fb.slope ELSE "nan"
       IN  /\ fits' = [fits EXCEPT !.a_worst = aw, !.b_worst = bw,
                                   !.a_best = ab, !.b_best = bb]
           /\ stdout' = stdout \o << Line("Fit for total_mbps_worst", <<aw, bw>>),
                                     Line("Fit for total_mbps_best", <<ab, bb>>) >>
    /\ pc' = "workbook"
    /\ UNCHANGED <<link, inring_satcount, ring_count, total_satcount, i_inring, i_ring,
                   max_mbps_per_sat, optimal_ring, evals, results, i_results, wb, file,
                   save_outcome>>

\* lines 103-117: the sheet 'Data' (a header and one row per result) and the
\* sheet 'Fits'
BuildWorkbook ==
    /\ pc = "workbook"
    /\ wb' = [Data |-> [i \in 1..Len(results) |->
                           [result |-> results[i],
                            fitted_worst |-> "a_worst*s**b_worst",
                            fitted_best |-> "a_best*s**b_best"]],
              Fits |-> << <<"Regression mbps_per_sat vs optimal_ring", fits.a1, fits.b1>>,
                          <<"Regression optimal_ring vs inring", fits.a2, fits.b2>>,
                          <<"Fit total_mbps_worst", fits.a_worst, fits.b_worst>>,
                          <<"Fit total_mbps_best", fits.a_best, fits.b_best>> >>]
    /\ pc' = "save"
    /\ UNCHANGED <<link, inring_satcount, ring_count, total_satcount, i_inring, i_ring,
                   max_mbps_per_sat, optimal_ring, evals, results, i_results, fits, file,
                   save_outcome, stdout>>

\* what wb.save(FILE_NAME) can do: write the file, fail because the file is
\* open elsewhere, or fail otherwise
SaveOutcomes == {"saved", "PermissionError", "OSError"}

\* mutant: except OSError (PermissionError is one)
CaughtOSError(outcome) == outcome \in {"PermissionError", "OSError"}

\* the except clause of line 122
Caught(outcome) == outcome = "PermissionError"

\* lines 119-124
Save ==
    /\ pc = "save"
    /\ \E outcome \in SaveOutcomes :
          /\ save_outcome' = outcome
          /\ IF outcome = "saved"
             THEN /\ file' = "written"
                  /\ stdout' = Append(stdout, Line("Data saved to", <<FILE_NAME>>))
                  /\ pc' = "analytic"
             ELSE IF Caught(outcome)
             THEN /\ stdout' = Append(stdout,
                         Line("The Excel file is currently open. Please close it and run the script again.",
                              <<FILE_NAME>>))
                  /\ pc' = "analytic"
                  /\ UNCHANGED file
             ELSE /\ pc' = "crashed"             \* the exception ends the script
                  /\ UNCHANGED <<file, stdout>>
    /\ UNCHANGED <<link, inring_satcount, ring_count, total_satcount, i_inring, i_ring,
                   max_mbps_per_sat, optimal_ring, evals, results, i_results, fits, wb>>

\* alpha = EM_km / (2 * math.pi * avg_sun_distance_km)
alpha ==
    RatDiv(RatInt(Big(EM_km)), RatMul(RatMul(RatInt(Big(2)), pi), avg_sun_distance_km))

\* lines 165-172
Analytic ==
    /\ pc = "analytic"
    /\ fits' = [fits EXCEPT !.a_worst = "K*sqrt(alpha)/(2*EM_km**2)", !.b_worst = "1.5",
                            !.a_best = "K*sqrt(alpha)/(EM_km**2)", !.b_best = "1.5"]
    /\ stdout' = stdout \o
           << Line("Analytical Fit for total_mbps_worst", <<"K*sqrt(alpha)/(2*EM_km**2)", "1.5">>),
              Line("Analytical Fit for total_mbps_best", <<"K*sqrt(alpha)/(EM_km**2)", "1.5">>) >>
    /\ pc' = "done"
    /\ UNCHANGED <<link, inring_satcount, ring_count, total_satcount, i_inring, i_ring,
                   max_mbps_per_sat, optimal_ring, evals, results, i_results, wb, file,
                   save_outcome>>

Next ==
    \/ NextInring
    \/ ScanRing
    \/ ComputeOptimal
    \/ Regress
    \/ ThresholdScan
    \/ PowerFit
    \/ BuildWorkbook
    \/ Save
    \/ Analytic

Spec == Init /\ [][Next]_vars

----------------------------------------------------------------------------
(* The script on stand-in link models and the first values of inring_satcount *)

MaxToyLen == 3
MaxToyMbps == 3
\* the number of values of range(20, 5321, 20) the script goes through
ToyInrings == 2

ToyTables == UNION {[1..n -> 0..MaxToyMbps] : n \in 1..MaxToyLen}
ToyLinks == {[kind |-> "toy", table |-> t] : t \in ToyTables}

InitToy == \E lm \in ToyLinks \cup {PhysicalLink} : Start(lm)

NextToy ==
    \/ ForInring(ToyInrings)
    \/ ScanRing
    \/ ComputeOptimal
    \/ Regress
    \/ ThresholdScan
    \/ PowerFit
    \/ BuildWorkbook
    \/ Save
    \/ Analytic

SpecToy == InitToy /\ [][NextToy]_vars

----------------------------------------------------------------------------
(* The threshold scan on synthetic result sequences *)

MaxSeqLen == 4
SyntheticMbps == {10, 50, 200, 1000, 1500}

SyntheticResult(i, mbps) ==
    [inring_satcount |-> RangeAt(InringStart, InringStep, i - 1),
     optimal_ring_count |-> 1,
     satcount_total |-> RangeAt(InringStart, InringStep, i - 1),
     max_mbps_per_sat |-> RatDiv(RatInt(Big(mbps)), RatInt(Big(RangeAt(InringStart, InringStep, i - 1)))),
     total_mbps_worst |-> RatInt(Big(mbps)),
     total_mbps_best |-> RatInt(Big(mbps))]

SyntheticResults ==
    UNION {{[i \in 1..n |-> SyntheticResult(i, column[i])] : column \in [1..n -> SyntheticMbps]}
           : n \in 0..MaxSeqLen}

\* the script at line 76, with a synthetic result table
InitThreshold ==
    /\ pc = "threshold"
    /\ link = PhysicalLink
    /\ inring_satcount = 4
    /\ ring_count = 4
    /\ total_satcount = 4 * 4
    /\ i_inring = 0
    /\ i_ring = 0
    /\ max_mbps_per_sat = RatZero
    /\ optimal_ring = 0
    /\ evals = << >>
    /\ results \in SyntheticResults
    /\ i_results = 0
    /\ fits = NoFits
    /\ wb = NoWorkbook
    /\ file = "absent"
    /\ save_outcome = "none"
    /\ stdout = << >>

NextThreshold == ThresholdScan

SpecThreshold == InitThreshold /\ [][NextThreshold]_vars

----------------------------------------------------------------------------
(* Properties *)

RingCounts == RangeAt(RingStart, 1, 0)..RangeAt(RingStart, 1, RangeLen(RingStart, RingStop, 1) - 1)

\* results has just received an entry
JustProduced == pc = "for_inring" /\ Len(results) > 0
LastResult == results[Len(results)]

\* results has just received an entry or has just been completed
ResultsGrown == pc \in {"for_inring", "regress"}

RatLE(x, y) == ~RatGT(x, y)
RatSame(x, y) == RatLE(x, y) /\ RatLE(y, x)

IsGlobalMaximum(r) ==
    /\ r.optimal_ring_count \in RingCounts
    /\ RatSame(r.max_mbps_per_sat, mbpsPerSat(r.inring_satcount, r.optimal_ring_count))
    /\ \A ring \in RingCounts :
          RatLE(mbpsPerSat(r.inring_satcount, ring), r.max_mbps_per_sat)

\* C1: results only grows by appending, and the max_mbps_per_sat stored in
\* every appended result is the maximum of total_mbps_worst(N, R) / (N * R)
\* over every R of range(1, 1000), attained at the stored optimal ring count.
C1_GlobalMaximum ==
    [][results' # results =>
          /\ results' = Append(results, results'[Len(results')])
          /\ IsGlobalMaximum(results'[Len(results')])]_vars

C1_Witness ==
    /\ JustProduced
    /\ LastResult.inring_satcount = 200
    /\ LastResult.optimal_ring_count = 15
    /\ ring_count = 16
    /\ IsGlobalMaximum(LastResult)

IsLocalMaximum(r) ==
    /\ r.optimal_ring_count >= 1
    /\ \A ring \in {r.optimal_ring_count - 1, r.optimal_ring_count + 1} :
          /\ ring >= 1
          /\ RatLE(mbpsPerSat(r.inring_satcount, ring),
                   mbpsPerSat(r.inring_satcount, r.optimal_ring_count))

\* C2: for every result, when it is produced, total_mbps_worst(N, R) / (N * R)
\* at the stored optimal ring count is at least its value at both neighbouring
\* ring counts, and both neighbours are ring counts at which it can be
\* evaluated (>= 1).
C2_LocalMaximum == JustProduced => IsLocalMaximum(LastResult)

C2_Witness ==
    /\ JustProduced
    /\ LastResult.inring_satcount = 40
    /\ LastResult.optimal_ring_count = 3
    /\ RatGT(mbpsPerSat(40, 3), mbpsPerSat(40, 2))
    /\ RatGT(mbpsPerSat(40, 3), mbpsPerSat(40, 4))

\* C3: every result's satcount_total is inring_satcount times the optimal ring
\* count of the same entry.
C3_TotalSatCount ==
    \A i \in 1..Len(results) :
        results[i].satcount_total = results[i].inring_satcount * results[i].optimal_ring_count

\* the scan went one ring count past the optimum before the entry was built
C3_Witness ==
    /\ JustProduced
    /\ LastResult.inring_satcount = 40
    /\ LastResult.optimal_ring_count = 3
    /\ ring_count = 4
    /\ LastResult.satcount_total = 120

ThresholdLines == SelectSeq(stdout, LAMBDA l : l.line = "threshold entry")
AboveTarget(i) == RatGT(results[i].total_mbps_worst, RatInt(Big(target_total_mbps)))
FirstAbove(i) == AboveTarget(i) /\ \A j \in 1..(i - 1) : ~AboveTarget(j)

\* C4: the threshold scan walks results in order; while it runs, every entry
\* passed is at or below the target and nothing has been reported; when it
\* has ended, exactly the first entry above the target has been reported, or
\* nothing when no entry is above it.
C4_ThresholdScan ==
    /\ pc = "threshold" =>
          /\ ThresholdLines = << >>
          /\ i_results \in 0..Len(results)
          /\ \A j \in 1..i_results : ~AboveTarget(j)
    /\ pc = "powerfit" =>
          IF \E i \in 1..Len(results) : AboveTarget(i)
          THEN /\ Len(ThresholdLines) = 1
               /\ FirstAbove(i_results)
               /\ ThresholdLines[1].data = <<results[i_results]>>
          ELSE /\ ThresholdLines = << >>
               /\ i_results = Len(results)

\* the sequence [10, 50, 200, 1500] with target 1000
C4_Witness ==
    /\ pc = "powerfit"
    /\ Len(results) = 4
    /\ [i \in 1..4 |-> results[i].total_mbps_worst]
          = <<RatInt(Big(10)), RatInt(Big(50)), RatInt(Big(200)), RatInt(Big(1500))>>
    /\ Len(ThresholdLines) = 1
    /\ ThresholdLines[1].data[1].total_mbps_worst = RatInt(Big(1500))

HasLine(text) == \E i \in 1..Len(stdout) : stdout[i].line = text
RetryLine == "The Excel file is currently open. Please close it and run the script again."
EndsWithAnalyticalFits ==
    /\ Len(stdout) >= 2
    /\ stdout[Len(stdout) - 1].line = "Analytical Fit for total_mbps_worst"
    /\ stdout[Len(stdout)].line = "Analytical Fit for total_mbps_best"

C5_State ==
    /\ save_outcome = "PermissionError" =>
          /\ pc \in {"analytic", "done"}
          /\ HasLine(RetryLine)
          /\ ~HasLine("Data saved to")
          /\ file = "absent"
          /\ pc = "analytic" => ENABLED Analytic
          /\ pc = "done" => EndsWithAnalyticalFits
    /\ save_outcome = "OSError" =>
          /\ pc = "crashed"
          /\ ~HasLine(RetryLine)
          /\ ~HasLine("Analytical Fit for total_mbps_worst")
          /\ ~ENABLED NextToy

C5_Step ==
    save_outcome' = "PermissionError" /\ pc = "save" =>
        /\ results' = results
        /\ fits' = fits
        /\ wb' = wb
        /\ stdout' = Append(stdout, Line(RetryLine, <<FILE_NAME>>))

\* C5: when wb.save fails with PermissionError the script does not crash: the
\* handler prints the retry instruction and not the 'saved' message, leaves
\* results and the fit coefficients as they were, and the script goes on to
\* print the two analytical fits and ends; any other failure of wb.save ends
\* the script there.
C5_LockedFile == [](C5_State) /\ [][C5_Step]_vars

C5_Witness ==
    /\ save_outcome = "PermissionError"
    /\ pc = "done"
    /\ link = PhysicalLink
    /\ Len(results) = ToyInrings
    /\ fits.a1 = Polyfit("optimal_ring_list", "mbps_per_sat_list").slope
    /\ HasLine(RetryLine)
    /\ EndsWithAnalyticalFits

RECURSIVE RunningMax(_, _)
RunningMax(inring, k) ==
    IF k = 0 THEN RatZero
    ELSE LET before == RunningMax(inring, k - 1)
             here == mbpsPerSat(inring, k)
         IN  IF RatGT(here, before) THEN here ELSE before

ScanEnded == pc # "for_ring" /\ i_inring > 0

C6_State ==
    /\ \A k \in 1..Len(evals) : evals[k] = k
    /\ (ScanEnded /\ RatPositive(mbpsPerSat(inring_satcount, 1))) =>
          LET stop == Len(evals)
          IN  /\ stop >= 2
              /\ \A k \in 1..(stop - 1) :
                    RatGT(mbpsPerSat(inring_satcount, k), RunningMax(inring_satcount, k - 1))
              /\ RatLE(mbpsPerSat(inring_satcount, stop), RunningMax(inring_satcount, stop - 1))
              /\ optimal_ring = evals[stop - 1]
              /\ RatLE(mbpsPerSat(inring_satcount, 2), mbpsPerSat(inring_satcount, 1))
                    => optimal_ring = 1

C6_Step == ScanEnded /\ pc' # "for_ring" => evals' = evals /\ optimal_ring' = optimal_ring

\* C6: for an inring_satcount whose throughput per satellite at one ring is
\* positive, the scan evaluates ring counts 1, 2, 3, ... in order and stops at
\* the first one whose value is not greater than the running maximum (a tie
\* stops it too); nothing is evaluated after that, and the optimal ring count
\* is the one evaluated just before; when two rings are not better than one,
\* it is 1.
C6_EarlyStop == [](C6_State) /\ [][C6_Step]_vars

\* a tie between one ring and two rings
C6_Witness ==
    /\ pc = "for_inring"
    /\ link.kind = "toy"
    /\ link.table = <<2, 2, 3>>
    /\ inring_satcount = 20
    /\ evals = <<1, 2>>
    /\ Len(results) = 1
    /\ LastResult.optimal_ring_count = 1

\* C7: every result has an optimal ring count >= 1, a satcount_total >= 1 and
\* positive worst-case and best-case throughput, so every value the power-law
\* fits take the logarithm of is positive.
C7_Positive ==
    \A i \in 1..Len(results) :
        /\ results[i].optimal_ring_count >= 1
        /\ results[i].satcount_total >= 1
        /\ RatPositive(results[i].total_mbps_worst)
        /\ RatPositive(results[i].total_mbps_best)

\* a scan has replaced the initial optimal_ring = 0
C7_Witness ==
    /\ JustProduced
    /\ LastResult.inring_satcount = 20
    /\ LastResult.optimal_ring_count = 2
    /\ LastResult.satcount_total = 40
    /\ RatPositive(LastResult.total_mbps_worst)
    /\ RatPositive(LastResult.total_mbps_best)

\* C8: in the result sequence, as far as it has been produced and when it
\* is complete, total_mbps_worst grows from each entry to the next, so every
\* entry after the first one above the target is above it too.
C8_Monotonic ==
    ResultsGrown =>
        /\ \A i \in 1..(Len(results) - 1) :
              RatGT(results[i + 1].total_mbps_worst, results[i].total_mbps_worst)
        /\ \A i \in 1..(Len(results) - 1) : AboveTarget(i) => AboveTarget(i + 1)

\* the entry for N = 700 is the first one above the target
C8_Witness ==
    /\ JustProduced
    /\ Len(results) = 36
    /\ results[35].inring_satcount = 700
    /\ ~AboveTarget(34)
    /\ AboveTarget(35)
    /\ AboveTarget(36)

\* C9: for every result the optimal ring count differs from alpha * N by less
\* than one ring.
C9_NearAnalytical ==
    ResultsGrown =>
        \A i \in 1..Len(results) :
            LET ring == RatInt(Big(results[i].optimal_ring_count))
                ideal == RatMul(alpha, RatInt(Big(results[i].inring_satcount)))
            IN  /\ RatGT(RatAdd(ideal, RatInt(One)), ring)
                /\ RatGT(RatAdd(ring, RatInt(One)), ideal)

\* alpha * 100 lies between 7 and 8, and the scan found 7
C9_Witness ==
    /\ JustProduced
    /\ LastResult.inring_satcount = 100
    /\ LastResult.optimal_ring_count = 7
    /\ RatGT(RatMul(alpha, RatInt(Big(100))), RatInt(Big(7)))
    /\ RatGT(RatInt(Big(8)), RatMul(alpha, RatInt(Big(100))))

\* C10: every scan ends by the break, one ring count past the optimum, and
\* never by exhausting range(1, 1000): the optimum is below 999.
C10_NeverExhausted ==
    pc = "optimal" =>
        /\ Len(evals) = optimal_ring + 1
        /\ ring_count = optimal_ring + 1
        /\ optimal_ring < RangeAt(RingStart, 1, RangeLen(RingStart, RingStop, 1) - 1)

C10_Witness ==
    /\ pc = "optimal"
    /\ inring_satcount = 200
    /\ optimal_ring = 15
    /\ evals = [k \in 1..16 |-> k]

====
